---------------------------- MODULE Spec2Model ----------------------------
(***************************************************************************)
(* Model of cmd/event_display/main.go: the startup sequence of main/run,   *)
(* the two HTTP middlewares (healthzMiddleware, requestLoggingMiddleware), *)
(* the request snapshot (toReq / LoggableRequest / logRequest) and the     *)
(* display formatter, with the CloudEvents receiver as the base handler.   *)
(*                                                                         *)
(* One request is in flight at a time: the handlers are closures that      *)
(* share no mutable state, and each runs synchronously from its first line *)
(* to its call of next.                                                    *)
(***************************************************************************)
EXTENDS Integers, Sequences, FiniteSets, TLC

\* Longest request body (in bytes) the model sends.
MaxBody == 2

\* The byte values a body is made of.
Byte == {"x", "y"}

--------------------------------------------------------------------------
(* Request bodies: io.ReadCloser streams *)

\* A body stream holds `data`; a read of it delivers the first `cut` bytes
\* and then ends, in an error when `err` and in io.EOF otherwise.  A stream
\* that ends in io.EOF has delivered all of its data.
BodyData == UNION {[1..n -> Byte] : n \in 0..MaxBody}

Streams ==
    {[data |-> d, cut |-> c, err |-> e] :
        d \in BodyData, c \in 0..MaxBody, e \in BOOLEAN}

WellFormedStream(s) == s.cut <= Len(s.data) /\ (~s.err => s.cut = Len(s.data))

\* io.ReadAll: the bytes read until the stream ended, and whether it ended
\* in an error.
ReadAll(s) == [bytes |-> SubSeq(s.data, 1, s.cut), err |-> s.err]

\* io.NopCloser(bytes.NewBuffer(body)): a fresh stream over body.
NewBuffer(body) == [data |-> body, cut |-> Len(body), err |-> FALSE]

\* A stream after Close: a read of it delivers nothing and fails.
ClosedBody == [data |-> <<>>, cut |-> 0, err |-> TRUE]

--------------------------------------------------------------------------
(* Requests *)

healthzPath == "/healthz"

Methods == {"GET", "POST"}

RequestURIs == {healthzPath, "/", "/healthz?probe=1"}

\* A nil *url.URL.
NilURL == [nil |-> TRUE]

\* net/url.URL of a request-target (the fields the server fills in).
ParseRequestURI(uri) ==
    [Scheme   |-> "",
     Host     |-> "",
     Path     |-> IF uri = "/" THEN "/" ELSE healthzPath,
     RawQuery |-> IF uri = "/healthz?probe=1" THEN "probe=1" ELSE ""]

\* Binary-mode CloudEvents attributes travel as headers.
HeaderNames == {"Ce-Specversion", "Ce-Type", "Ce-Priority"}

SpecVersions == {"", "1.0"}
EventTypes   == {"", "sample.created", "dev.knative.heartbeat"}
Priorities   == {"", "1"}

\* http.Header: the names that are present, each with its value ("" stands
\* for a header the sender left out).
MakeHeader(sv, ty, pr) ==
    LET all == [n \in HeaderNames |->
                   CASE n = "Ce-Specversion" -> sv
                     [] n = "Ce-Type"        -> ty
                     [] OTHER                -> pr]
    IN  [n \in {m \in HeaderNames : all[m] # ""} |-> all[n]]

Headers ==
    {MakeHeader(sv, ty, pr) : sv \in SpecVersions, ty \in EventTypes, pr \in Priorities}

\* An http.Header with no entries.
NoHeader == [n \in {} |-> ""]

\* The *http.Request the server hands to the outermost handler; a chunked
\* request has no declared length.
ServerRequest(m, uri, hdr, body, chunked) ==
    [Method           |-> m,
     URL              |-> ParseRequestURI(uri),
     Proto            |-> "HTTP/1.1",
     ProtoMajor       |-> 1,
     ProtoMinor       |-> 1,
     Header           |-> hdr,
     Body             |-> body,
     ContentLength    |-> IF chunked THEN -1 ELSE Len(body.data),
     TransferEncoding |-> IF chunked THEN <<"chunked">> ELSE <<>>,
     Host             |-> "event-display",
     Trailer          |-> NoHeader,
     RemoteAddr       |-> "10.0.0.7:41000",
     RequestURI       |-> uri]

\* The request http.NewRequest builds, as a test of a handler passes it: it
\* has neither a request-target string nor a remote address.
NewRequest(m, target, hdr, body) ==
    [Method           |-> m,
     URL              |-> ParseRequestURI(target),
     Proto            |-> "HTTP/1.1",
     ProtoMajor       |-> 1,
     ProtoMinor       |-> 1,
     Header           |-> hdr,
     Body             |-> body,
     ContentLength    |-> Len(body.data),
     TransferEncoding |-> <<>>,
     Host             |-> "",
     Trailer          |-> NoHeader,
     RemoteAddr       |-> "",
     RequestURI       |-> ""]

\* The request literal &http.Request{Body: body}: every other field zero.
BareRequest(body) ==
    [Method           |-> "",
     URL              |-> NilURL,
     Proto            |-> "",
     ProtoMajor       |-> 0,
     ProtoMinor       |-> 0,
     Header           |-> NoHeader,
     Body             |-> body,
     ContentLength    |-> 0,
     TransferEncoding |-> <<>>,
     Host             |-> "",
     Trailer          |-> NoHeader,
     RemoteAddr       |-> "",
     RequestURI       |-> ""]

--------------------------------------------------------------------------
(* JSON values, as encoding/json renders them *)

JStr(s)   == [k |-> "string", s |-> s]
JBytes(b) == [k |-> "bytes", b |-> b]
JNum(n)   == [k |-> "number", n |-> n]
JList(l)  == [k |-> "list", l |-> l]
JObj(o)   == [k |-> "object", o |-> o]
JNull     == [k |-> "null"]

\* encoding/json's "empty value" of a struct field: 0, a nil pointer, and
\* any empty string, slice or map.
IsEmptyValue(v) ==
    CASE v.k = "string" -> v.s = ""
      [] v.k = "bytes"  -> v.b = <<>>
      [] v.k = "number" -> v.n = 0
      [] v.k = "list"   -> v.l = <<>>
      [] v.k = "object" -> DOMAIN v.o = {}
      [] v.k = "null"   -> TRUE

\* An http.Header as a JSON object: name -> list of values.
HeaderJSON(h) == JObj([n \in DOMAIN h |-> JList(<<JStr(h[n])>>)])

\* A *url.URL as a JSON value: null for a nil pointer; url.URL has no
\* marshaller of its own, so every exported field is written, empty or not.
URLJSON(u) == IF u = NilURL THEN JNull ELSE JObj([f \in DOMAIN u |-> JStr(u[f])])

--------------------------------------------------------------------------
(* The request snapshot: LoggableRequest, toReq, logRequest *)

\* LoggableRequest with omitempty on every field.
LoggableFields_AllOmitEmpty ==
    << [field |-> "Method",           key |-> "method",           omitempty |-> TRUE],
       [field |-> "URL",              key |-> "URL",              omitempty |-> TRUE],
       [field |-> "Proto",            key |-> "proto",            omitempty |-> TRUE],
       [field |-> "ProtoMajor",       key |-> "protoMajor",       omitempty |-> TRUE],
       [field |-> "ProtoMinor",       key |-> "protoMinor",       omitempty |-> TRUE],
       [field |-> "Header",           key |-> "headers",          omitempty |-> TRUE],
       [field |-> "Body",             key |-> "body",             omitempty |-> TRUE],
       [field |-> "ContentLength",    key |-> "contentLength",    omitempty |-> TRUE],
       [field |-> "TransferEncoding", key |-> "transferEncoding", omitempty |-> TRUE],
       [field |-> "Host",             key |-> "host",             omitempty |-> TRUE],
       [field |-> "Trailer",          key |-> "trailer",          omitempty |-> TRUE],
       [field |-> "RemoteAddr",       key |-> "remoteAddr",       omitempty |-> TRUE],
       [field |-> "RequestURI",       key |-> "requestURI",       omitempty |-> TRUE] >>

\* The fields of LoggableRequest in declaration order: the Go field, its
\* JSON key, and whether its tag carries omitempty.
LoggableFields ==
    << [field |-> "Method",           key |-> "method",           omitempty |-> TRUE],
       [field |-> "URL",              key |-> "URL",              omitempty |-> TRUE],
       [field |-> "Proto",            key |-> "proto",            omitempty |-> TRUE],
       [field |-> "ProtoMajor",       key |-> "protoMajor",       omitempty |-> TRUE],
       [field |-> "ProtoMinor",       key |-> "protoMinor",       omitempty |-> TRUE],
       [field |-> "Header",           key |-> "headers",          omitempty |-> TRUE],
       [field |-> "Body",             key |-> "body",             omitempty |-> TRUE],
       [field |-> "ContentLength",    key |-> "contentLength",    omitempty |-> TRUE],
       [field |-> "TransferEncoding", key |-> "transferEncoding", omitempty |-> TRUE],
       [field |-> "Host",             key |-> "host",             omitempty |-> TRUE],
       [field |-> "Trailer",          key |-> "trailer",          omitempty |-> TRUE],
       [field |-> "RemoteAddr",       key |-> "remoteAddr",       omitempty |-> FALSE],
       [field |-> "RequestURI",       key |-> "requestURI",       omitempty |-> FALSE] >>

\* The JSON value of one field of a LoggableRequest.
FieldJSON(lr, field) ==
    CASE field = "Method"           -> JStr(lr.Method)
      [] field = "URL"              -> URLJSON(lr.URL)
      [] field = "Proto"            -> JStr(lr.Proto)
      [] field = "ProtoMajor"       -> JNum(lr.ProtoMajor)
      [] field = "ProtoMinor"       -> JNum(lr.ProtoMinor)
      [] field = "Header"           -> HeaderJSON(lr.Header)
      [] field = "Body"             -> JBytes(lr.Body)
      [] field = "ContentLength"    -> JNum(lr.ContentLength)
      [] field = "TransferEncoding" -> JList(lr.TransferEncoding)
      [] field = "Host"             -> JStr(lr.Host)
      [] field = "Trailer"          -> HeaderJSON(lr.Trailer)
      [] field = "RemoteAddr"       -> JStr(lr.RemoteAddr)
      [] field = "RequestURI"       -> JStr(lr.RequestURI)

\* json.MarshalIndent of a LoggableRequest: a field is left out when its tag
\* carries omitempty and its value is the empty value.
MarshalIndent(lr) ==
    LET kept == {i \in DOMAIN LoggableFields :
                    ~ (LoggableFields[i].omitempty
                       /\ IsEmptyValue(FieldJSON(lr, LoggableFields[i].field)))}
        at(key) == CHOOSE i \in kept : LoggableFields[i].key = key
    IN  JObj([key \in {LoggableFields[i].key : i \in kept} |->
                 FieldJSON(lr, LoggableFields[at(key)].field)])

\* toReq without the replacement of the body: the request keeps the stream
\* that was read and closed.
toReq_KeepsClosedBody(req) ==
    LET read == ReadAll(req.Body)
    IN  [req  |-> [req EXCEPT !.Body = ClosedBody],
         warn |-> read.err,
         lr   |-> [Method           |-> req.Method,
                   URL              |-> req.URL,
                   Proto            |-> req.Proto,
                   ProtoMajor       |-> req.ProtoMajor,
                   ProtoMinor       |-> req.ProtoMinor,
                   Header           |-> req.Header,
                   Body             |-> read.bytes,
                   ContentLength    |-> req.ContentLength,
                   TransferEncoding |-> req.TransferEncoding,
                   Host             |-> req.Host,
                   Trailer          |-> req.Trailer,
                   RemoteAddr       |-> req.RemoteAddr,
                   RequestURI       |-> req.RequestURI]]

\* toReq: reads the whole body, closes it, attaches a fresh stream over the
\* bytes read, and copies the request's fields.  `warn` is the
\* "failed to read request body" line.
toReq(req) ==
    LET read == ReadAll(req.Body)
    IN  [req  |-> [req EXCEPT !.Body = NewBuffer(read.bytes)],
         warn |-> read.err,
         lr   |-> [Method           |-> req.Method,
                   URL              |-> req.URL,
                   Proto            |-> req.Proto,
                   ProtoMajor       |-> req.ProtoMajor,
                   ProtoMinor       |-> req.ProtoMinor,
                   Header           |-> req.Header,
                   Body             |-> read.bytes,
                   ContentLength    |-> req.ContentLength,
                   TransferEncoding |-> req.TransferEncoding,
                   Host             |-> req.Host,
                   Trailer          |-> req.Trailer,
                   RemoteAddr       |-> req.RemoteAddr,
                   RequestURI       |-> req.RequestURI]]

ReadWarning    == [kind |-> "warning", text |-> "failed to read request body"]
MarshalWarning == [kind |-> "warning", text |-> "failed to marshal request"]
BlankLine      == [kind |-> "blank"]
Snapshot(json) == [kind |-> "snapshot", json |-> json]

\* logRequest: the request as toReq leaves it, and the lines written.  When
\* marshalling fails the warning is followed by string(nil), a blank line.
logRequest(req, marshalFails) ==
    LET t == toReq(req)
    IN  [req   |-> t.req,
         lines |-> (IF t.warn THEN <<ReadWarning>> ELSE <<>>)
                   \o (IF marshalFails
                         THEN <<MarshalWarning, BlankLine>>
                         ELSE <<Snapshot(MarshalIndent(t.lr))>>)]

--------------------------------------------------------------------------
(* Events and the display formatter *)

\* A Go map value: nil, or a mapping.
NilMap     == [nil |-> TRUE,  m |-> NoHeader]
GoMap(m)   == [nil |-> FALSE, m |-> m]

\* json.Marshal of a map[string]interface{}: null for a nil map.
Marshal(v) ==
    IF v.nil THEN JNull ELSE JObj([n \in DOMAIN v.m |-> JStr(v.m[n])])

\* event.Context.GetExtensions(): nil when the event carries no extension,
\* else a copy of the extension map.
GetExtensions(event) ==
    IF DOMAIN event.Extensions = {} THEN NilMap ELSE GoMap(event.Extensions)

\* display printing an empty object for the extensions whatever they are.
display_EmptyExtensions(event) ==
    << [kind       |-> "display",
        data       |-> event.DataEncoded,
        type       |-> event.Type,
        extensions |-> JObj(NoHeader)] >>

\* display: one log.Printf of the payload, the type and the extensions.
display(event) ==
    << [kind       |-> "display",
        data       |-> event.DataEncoded,
        type       |-> event.Type,
        extensions |-> Marshal(GetExtensions(event))] >>

\* A decoder that validates the attributes but accepts a payload it could
\* not read to the end.
Malformed_IgnoresReadError(req) ==
    \/ "Ce-Specversion" \notin DOMAIN req.Header
    \/ "Ce-Type" \notin DOMAIN req.Header

\* The receiver's decoding of a binary-mode request: the attributes come
\* from the Ce- headers, the payload from the body.
Malformed(req) ==
    \/ ReadAll(req.Body).err
    \/ "Ce-Specversion" \notin DOMAIN req.Header
    \/ "Ce-Type" \notin DOMAIN req.Header

ToEvent(req) ==
    [SpecVersion |-> req.Header["Ce-Specversion"],
     Type        |-> req.Header["Ce-Type"],
     Extensions  |-> IF "Ce-Priority" \in DOMAIN req.Header
                       THEN [n \in {"priority"} |-> req.Header["Ce-Priority"]]
                       ELSE NoHeader,
     DataEncoded |-> ReadAll(req.Body).bytes]

--------------------------------------------------------------------------
(* The handler chain *)

\* The cehttp.WithMiddleware options in the order run passes them.
Options == <<"healthz", "requestLogging">>

\* cehttp.WithMiddleware appends to the transport's middleware list, and the
\* transport wraps its handler in the list front to back (h = m(h) for each
\* m in turn): "Middleware is applied to everything before it",
\* WithMiddleware(foo), WithMiddleware(bar) gives bar(foo(original)).  So a
\* later option wraps an earlier one.  A chain is written outermost handler
\* first.
RECURSIVE attachMiddleware(_, _)
attachMiddleware(h, middleware) ==
    IF middleware = <<>>
      THEN h
      ELSE attachMiddleware(<<Head(middleware)>> \o h, Tail(middleware))

\* The chain StartReceiver serves: the middleware around the receiver.
Handler == attachMiddleware(<<"receiver">>, Options)

\* The handler a middleware was given as next.
NextOf(h) == Handler[(CHOOSE i \in DOMAIN Handler : Handler[i] = h) + 1]

Callees == {"healthz", "requestLogging", "receiver", "display"}

StatusNoContent == 204

--------------------------------------------------------------------------
(* State *)

VARIABLES
    pc,                     \* where main/run stands
    requestLoggingEnabled,  \* REQUEST_LOGGING_ENABLED, as parsed
    conf,                   \* the tracing configuration
    tracer,                 \* "none", "running" or "shutdown"
    shutdowns,              \* calls of tracer.Shutdown so far
    logFile,                \* "unopened", "open" or "closed"
    exit,                   \* how the process ended, "" while it runs
    log,                    \* the lines main/run wrote
    handling,               \* the handler about to run for the request in flight
    req,                    \* the request in flight, as the handlers see it
    orig,                   \* the request in flight, as the server accepted it
    w,                      \* the status written to the response, 0 for none
    calls,                  \* invocations of each handler for this request
    reads,                  \* who read the request body, in order
    received,               \* what the receiver read from the body
    reqLog                  \* the lines written while handling this request

procVars == <<pc, requestLoggingEnabled, conf, tracer, shutdowns, logFile, exit, log>>
reqVars  == <<handling, req, orig, w, calls, reads, received, reqLog>>
vars     == <<pc, requestLoggingEnabled, conf, tracer, shutdowns, logFile, exit, log,
              handling, req, orig, w, calls, reads, received, reqLog>>

NoRequest == [idle |-> TRUE]
NothingRead == [bytes |-> <<>>, err |-> FALSE]
NoCalls == [h \in Callees |-> 0]

Line(kind, text) == [kind |-> kind, text |-> text]

Init ==
    /\ pc = "main"
    /\ requestLoggingEnabled = FALSE
    /\ conf = "unset"
    /\ tracer = "none"
    /\ shutdowns = 0
    /\ logFile = "unopened"
    /\ exit = ""
    /\ log = <<>>
    /\ handling = "idle"
    /\ req = NoRequest
    /\ orig = NoRequest
    /\ w = 0
    /\ calls = NoCalls
    /\ reads = <<>>
    /\ received = NothingRead
    /\ reqLog = <<>>

--------------------------------------------------------------------------
(* main and run *)

\* log.Fatal / log.Fatalf: writes the line and calls os.Exit(1), which runs
\* no deferred call.
Fatal(text) ==
    /\ log' = Append(log, Line("fatal", text))
    /\ pc' = "exited"
    /\ exit' = "fatal"
    /\ UNCHANGED <<tracer, shutdowns, logFile>>

\* main: opens the log file (panics if it cannot), points the logger at it
\* and calls run.
Main ==
    /\ pc = "main"
    /\ \E ok \in BOOLEAN :
         IF ok
           THEN /\ logFile' = "open"
                /\ pc' = "run"
                /\ UNCHANGED exit
           ELSE /\ pc' = "exited"
                /\ exit' = "panic"
                /\ UNCHANGED logFile
    /\ UNCHANGED <<requestLoggingEnabled, conf, tracer, shutdowns, log>>
    /\ UNCHANGED reqVars

\* run, first lines: REQUEST_LOGGING_ENABLED is parsed and, when set, noted.
ParseEnv ==
    /\ pc = "run"
    /\ \E enabled \in BOOLEAN :
         /\ requestLoggingEnabled' = enabled
         /\ log' = IF enabled
                     THEN Append(log, Line("notice", "Request logging enabled"))
                     ELSE log
    /\ pc' = "newClient"
    /\ UNCHANGED <<conf, tracer, shutdowns, logFile, exit>>
    /\ UNCHANGED reqVars

\* client.NewClientHTTP with the two middleware options; fatal on error.
NewClientHTTP ==
    /\ pc = "newClient"
    /\ \E ok \in BOOLEAN :
         IF ok
           THEN /\ pc' = "tracingConfig"
                /\ UNCHANGED <<tracer, shutdowns, logFile, exit, log>>
           ELSE Fatal("Failed to create client")
    /\ UNCHANGED <<requestLoggingEnabled, conf>>
    /\ UNCHANGED reqVars

\* run treating a tracing-configuration error like the other startup errors.
JSONToTracingConfig_Fatal ==
    /\ pc = "tracingConfig"
    /\ \E ok \in BOOLEAN :
         IF ok
           THEN /\ conf' = "parsed"
                /\ pc' = "setupTracing"
                /\ UNCHANGED <<tracer, shutdowns, logFile, exit, log>>
           ELSE /\ conf' = "noop"
                /\ Fatal("Failed to read tracing config")
    /\ UNCHANGED requestLoggingEnabled
    /\ UNCHANGED reqVars

\* config.JSONToTracingConfig: on error the no-op configuration comes back
\* and run only logs.
JSONToTracingConfig ==
    /\ pc = "tracingConfig"
    /\ \E ok \in BOOLEAN :
         IF ok
           THEN /\ conf' = "parsed"
                /\ UNCHANGED log
           ELSE /\ conf' = "noop"
                /\ log' = Append(log, Line("warning", "Failed to read tracing config"))
    /\ pc' = "setupTracing"
    /\ UNCHANGED <<requestLoggingEnabled, tracer, shutdowns, logFile, exit>>
    /\ UNCHANGED reqVars

\* tracing.SetupPublishingWithStaticConfig; fatal on error, else the
\* shutdown is deferred.
SetupPublishing ==
    /\ pc = "setupTracing"
    /\ \E ok \in BOOLEAN :
         IF ok
           THEN /\ tracer' = "running"
                /\ pc' = "startReceiver"
                /\ UNCHANGED <<shutdowns, logFile, exit, log>>
           ELSE Fatal("Failed to initialize tracing")
    /\ UNCHANGED <<requestLoggingEnabled, conf>>
    /\ UNCHANGED reqVars

\* c.StartReceiver(ctx, display): the receiver starts serving.
StartReceiver ==
    /\ pc = "startReceiver"
    /\ pc' = "serving"
    /\ UNCHANGED <<requestLoggingEnabled, conf, tracer, shutdowns, logFile, exit, log>>
    /\ UNCHANGED reqVars

\* StartReceiver returns an error: log.Fatal.
ReceiverFails ==
    /\ pc = "serving"
    /\ Fatal("Error during receiver's runtime")
    /\ UNCHANGED <<requestLoggingEnabled, conf>>
    /\ UNCHANGED reqVars

\* StartReceiver returns nil (ctx was cancelled): run returns, its deferred
\* tracer.Shutdown runs, then main returns and its deferred Close runs.
ReceiverStops ==
    /\ pc = "serving"
    /\ tracer' = "shutdown"
    /\ shutdowns' = shutdowns + 1
    /\ logFile' = "closed"
    /\ pc' = "exited"
    /\ exit' = "returned"
    /\ UNCHANGED <<requestLoggingEnabled, conf, log>>
    /\ UNCHANGED reqVars

--------------------------------------------------------------------------
(* Serving a request *)

\* A handler calls next.ServeHTTP(w, req).
CallNext(h) ==
    /\ handling' = NextOf(h)
    /\ calls' = [calls EXCEPT ![NextOf(h)] = @ + 1]

\* The server accepts a request and calls the outermost handler.
Accept ==
    /\ pc = "serving"
    /\ handling = "idle"
    /\ \E m \in Methods, uri \in RequestURIs, hdr \in Headers,
          body \in Streams, chunked \in BOOLEAN :
         /\ WellFormedStream(body)
         /\ req' = ServerRequest(m, uri, hdr, body, chunked)
         /\ orig' = ServerRequest(m, uri, hdr, body, chunked)
    /\ handling' = Handler[1]
    /\ calls' = [NoCalls EXCEPT ![Handler[1]] = 1]
    /\ w' = 0
    /\ reads' = <<>>
    /\ received' = NothingRead
    /\ reqLog' = <<>>
    /\ UNCHANGED procVars

\* healthzMiddleware without its else: the probe is answered and the request
\* handed on all the same.
healthzMiddleware_FallsThrough ==
    /\ pc = "serving"
    /\ handling = "healthz"
    /\ w' = IF req.RequestURI = healthzPath THEN StatusNoContent ELSE w
    /\ CallNext("healthz")
    /\ UNCHANGED <<req, orig, reads, received, reqLog>>
    /\ UNCHANGED procVars

\* healthzMiddleware's handler.
healthzMiddleware ==
    /\ pc = "serving"
    /\ handling = "healthz"
    /\ IF req.RequestURI = healthzPath
         THEN /\ w' = StatusNoContent
              /\ handling' = "responded"
              /\ UNCHANGED calls
         ELSE /\ CallNext("healthz")
              /\ UNCHANGED w
    /\ UNCHANGED <<req, orig, reads, received, reqLog>>
    /\ UNCHANGED procVars

\* requestLoggingMiddleware logging whether enabled or not.
requestLoggingMiddleware_IgnoresFlag ==
    /\ pc = "serving"
    /\ handling = "requestLogging"
    /\ \E marshalFails \in BOOLEAN :
         LET l == logRequest(req, marshalFails)
         IN  /\ req' = l.req
             /\ reqLog' = reqLog \o l.lines
             /\ reads' = Append(reads, "requestLogging")
    /\ CallNext("requestLogging")
    /\ UNCHANGED <<orig, w, received>>
    /\ UNCHANGED procVars

\* requestLoggingMiddleware giving up on a request whose body it could not
\* read: it answers 500 and does not call next.
requestLoggingMiddleware_AbortsOnFailure ==
    /\ pc = "serving"
    /\ handling = "requestLogging"
    /\ IF requestLoggingEnabled
         THEN \E marshalFails \in BOOLEAN :
                LET l == logRequest(req, marshalFails)
                IN  /\ req' = l.req
                    /\ reqLog' = reqLog \o l.lines
                    /\ reads' = Append(reads, "requestLogging")
         ELSE UNCHANGED <<req, reqLog, reads>>
    /\ IF requestLoggingEnabled /\ ReadAll(req.Body).err
         THEN /\ w' = 500
              /\ handling' = "responded"
              /\ UNCHANGED calls
         ELSE /\ CallNext("requestLogging")
              /\ UNCHANGED w
    /\ UNCHANGED <<orig, received>>
    /\ UNCHANGED procVars

\* requestLoggingMiddleware's handler.
requestLoggingMiddleware ==
    /\ pc = "serving"
    /\ handling = "requestLogging"
    /\ IF requestLoggingEnabled
         THEN \E marshalFails \in BOOLEAN :
                LET l == logRequest(req, marshalFails)
                IN  /\ req' = l.req
                    /\ reqLog' = reqLog \o l.lines
                    /\ reads' = Append(reads, "requestLogging")
         ELSE UNCHANGED <<req, reqLog, reads>>
    /\ CallNext("requestLogging")
    /\ UNCHANGED <<orig, w, received>>
    /\ UNCHANGED procVars

\* The receiver: decodes the request; a malformed one is answered with a
\* client error, a well-formed one is handed to display and acknowledged.
Receive ==
    /\ pc = "serving"
    /\ handling = "receiver"
    /\ reads' = Append(reads, "receiver")
    /\ received' = ReadAll(req.Body)
    /\ req' = [req EXCEPT !.Body = ClosedBody]
    /\ IF Malformed(req)
         THEN /\ w' = 400
              /\ UNCHANGED <<calls, reqLog>>
         ELSE /\ calls' = [calls EXCEPT !["display"] = @ + 1]
              /\ reqLog' = reqLog \o display(ToEvent(req))
              /\ w' = 200
    /\ handling' = "responded"
    /\ UNCHANGED orig
    /\ UNCHANGED procVars

\* The response is sent and the exchange is over.
Finish ==
    /\ pc = "serving"
    /\ handling = "responded"
    /\ handling' = "idle"
    /\ req' = NoRequest
    /\ orig' = NoRequest
    /\ w' = 0
    /\ calls' = NoCalls
    /\ reads' = <<>>
    /\ received' = NothingRead
    /\ reqLog' = <<>>
    /\ UNCHANGED procVars

Next ==
    \/ Main
    \/ ParseEnv
    \/ NewClientHTTP
    \/ JSONToTracingConfig
    \/ SetupPublishing
    \/ StartReceiver
    \/ ReceiverFails
    \/ ReceiverStops
    \/ Accept
    \/ healthzMiddleware
    \/ requestLoggingMiddleware
    \/ Receive
    \/ Finish

Spec == Init /\ [][Next]_vars

--------------------------------------------------------------------------
(* logRequest on its own *)

\* The requests logRequest is applied to: those the server builds and those
\* a caller builds itself.
AnyRequests ==
    {ServerRequest(m, uri, hdr, body, chunked) :
        m \in Methods, uri \in RequestURIs, hdr \in Headers,
        body \in {b \in Streams : WellFormedStream(b)}, chunked \in BOOLEAN}
    \cup {NewRequest(m, uri, hdr, body) :
        m \in Methods, uri \in RequestURIs, hdr \in Headers,
        body \in {b \in Streams : WellFormedStream(b)}}
    \cup {BareRequest(body) : body \in {b \in Streams : WellFormedStream(b)}}

InitLogRequest ==
    /\ pc = "logRequest"
    /\ requestLoggingEnabled = TRUE
    /\ conf = "unset"
    /\ tracer = "none"
    /\ shutdowns = 0
    /\ logFile = "unopened"
    /\ exit = ""
    /\ log = <<>>
    /\ handling = "idle"
    /\ req = NoRequest
    /\ orig = NoRequest
    /\ w = 0
    /\ calls = NoCalls
    /\ reads = <<>>
    /\ received = NothingRead
    /\ reqLog = <<>>

\* logRequest(req) is called on a request.
CallLogRequest ==
    /\ pc = "logRequest"
    /\ handling = "idle"
    /\ \E request \in AnyRequests, marshalFails \in BOOLEAN :
         LET l == logRequest(request, marshalFails)
         IN  /\ orig' = request
             /\ req' = l.req
             /\ reqLog' = l.lines
    /\ reads' = <<"requestLogging">>
    /\ handling' = "logged"
    /\ UNCHANGED <<w, calls, received>>
    /\ UNCHANGED procVars

\* The caller is done with the request.
DropRequest ==
    /\ pc = "logRequest"
    /\ handling = "logged"
    /\ handling' = "idle"
    /\ req' = NoRequest
    /\ orig' = NoRequest
    /\ reads' = <<>>
    /\ reqLog' = <<>>
    /\ UNCHANGED <<w, calls, received>>
    /\ UNCHANGED procVars

NextLogRequest == CallLogRequest \/ DropRequest

SpecLogRequest == InitLogRequest /\ [][NextLogRequest]_vars

--------------------------------------------------------------------------
(* Properties *)

Range(f) == {f[i] : i \in DOMAIN f}

InFlight == handling # "idle"

\* The handler h has run for the request in flight and handed on.
HasRun(h) == InFlight /\ calls[h] > 0 /\ handling # h

\* The lines of the request log the request logger writes.
LoggerLines == {l \in Range(reqLog) : l.kind \in {"warning", "blank", "snapshot"}}

DisplayLines == {i \in DOMAIN reqLog : reqLog[i].kind = "display"}

\* What the handlers after the request logger read, or would read, from
\* the request body.
BodySeen == IF "receiver" \in Range(reads) THEN received ELSE ReadAll(req.Body)

\* C1: a request whose request-target equals the health path is answered by
\* healthzMiddleware with 204, whatever its method or body, and neither the
\* next handler nor display is invoked for it.
C1_HealthzAnswersNoContent ==
    (HasRun("healthz") /\ orig.RequestURI = healthzPath)
        => /\ w = 204
           /\ handling = "responded"
           /\ calls[NextOf("healthz")] = 0
           /\ calls["display"] = 0
           /\ DisplayLines = {}

C1_Witness ==
    /\ HasRun("healthz")
    /\ orig.RequestURI = healthzPath
    /\ orig.Method = "POST"
    /\ orig.Body.data # <<>>
    /\ "Ce-Type" \in DOMAIN orig.Header
    /\ w = 204

\* C2: the health filter runs before the request logger: with request
\* logging enabled, a request to the health path is answered 204 without the
\* logger having read its body or written any line for it.
C2_HealthFilterBeforeLogger ==
    (InFlight /\ requestLoggingEnabled /\ orig.RequestURI = healthzPath)
        => /\ "requestLogging" \notin Range(reads)
           /\ LoggerLines = {}
           /\ (handling = "responded" => w = 204)

\* C3 as stated: with request logging enabled, the body the next handlers
\* read after the logger is byte-identical to the original request body,
\* also when reading the original body ends in an error.
C3_BodyIdenticalAlways ==
    (requestLoggingEnabled /\ HasRun("requestLogging"))
        => BodySeen.bytes = orig.Body.data

\* C3 as amended: with request logging enabled, the body the next handlers
\* read after the logger holds exactly the bytes the original stream
\* delivered and ends without an error; it is byte-identical to the original
\* body when reading the original succeeded, and only the prefix read before
\* the error otherwise.
C3_BodyReplayed ==
    (requestLoggingEnabled /\ HasRun("requestLogging"))
        => /\ BodySeen.bytes = SubSeq(orig.Body.data, 1, orig.Body.cut)
           /\ ~BodySeen.err
           /\ (~orig.Body.err => BodySeen.bytes = orig.Body.data)

C3_Witness ==
    /\ requestLoggingEnabled
    /\ handling = "responded"
    /\ reads = <<"requestLogging", "receiver">>
    /\ orig.Body.err
    /\ received.bytes # <<>>
    /\ received.bytes # orig.Body.data

\* C4: with request logging disabled, requestLoggingMiddleware writes no
\* line, does not read or replace the body, and invokes next exactly once
\* with a body identical to the original.
C4_DisabledIsPassThrough ==
    (~requestLoggingEnabled /\ HasRun("requestLogging"))
        => /\ LoggerLines = {}
           /\ "requestLogging" \notin Range(reads)
           /\ calls[NextOf("requestLogging")] = 1
           /\ BodySeen = ReadAll(orig.Body)
           /\ ("receiver" \notin Range(reads) => req = orig)

C4_Witness ==
    /\ ~requestLoggingEnabled
    /\ handling = "responded"
    /\ reads = <<"receiver">>
    /\ received.bytes # <<>>
    /\ received.bytes = orig.Body.data

\* C7: with request logging enabled, a failure to read the body or to
\* serialize the snapshot is logged as a warning and does not abort the
\* request: next is invoked exactly once, with a readable body holding the
\* bytes that were read.
C7_LoggingFailureDoesNotAbort ==
    (requestLoggingEnabled /\ HasRun("requestLogging"))
        => /\ orig.Body.err => ReadWarning \in Range(reqLog)
           /\ (BlankLine \in Range(reqLog)) => MarshalWarning \in Range(reqLog)
           /\ (orig.Body.err \/ MarshalWarning \in Range(reqLog))
                 => /\ calls[NextOf("requestLogging")] = 1
                    /\ ~BodySeen.err
                    /\ BodySeen.bytes = SubSeq(orig.Body.data, 1, orig.Body.cut)

C7_Witness ==
    /\ requestLoggingEnabled
    /\ handling = "responded"
    /\ orig.Body.err
    /\ ReadWarning \in Range(reqLog)
    /\ "receiver" \in Range(reads)
    /\ received.bytes # <<>>

\* The receiver found the request it was handed malformed: it could not
\* read the payload, or a required attribute is missing.
RejectedPayload ==
    /\ handling = "responded"
    /\ calls["receiver"] > 0
    /\ \/ received.err
       \/ "Ce-Specversion" \notin DOMAIN orig.Header
       \/ "Ce-Type" \notin DOMAIN orig.Header

C5_NoDisplayOfMalformed ==
    RejectedPayload
        => /\ w \in 400..499
           /\ calls["display"] = 0
           /\ DisplayLines = {}

C5_RejectionIsLocal ==
    (handling = "receiver" /\ handling' = "responded" /\ w' \in 400..499)
        => UNCHANGED procVars

\* C5: a non-probe request whose payload fails decoding or validation (a
\* missing specversion or type, an unreadable payload) is answered with a
\* client-error status, display is not invoked for it, and rejecting it
\* changes nothing of the process state other requests see.
C5_MalformedIsRejected ==
    [] C5_NoDisplayOfMalformed /\ [][C5_RejectionIsLocal]_vars

C5_Witness ==
    /\ RejectedPayload
    /\ "Ce-Specversion" \in DOMAIN orig.Header
    /\ "Ce-Type" \notin DOMAIN orig.Header
    /\ ~received.err
    /\ w = 400

\* C6: once the tracer has been constructed, tracer shutdown has run exactly
\* once whenever the process has left run, also when StartReceiver returned
\* an error and log.Fatal was taken.
C6_ShutdownOnEveryExit ==
    (pc = "exited" /\ tracer # "none") => shutdowns = 1

\* The event the receiver decoded from the request in flight.
DecodedType == orig.Header["Ce-Type"]
HasExtensions == "Ce-Priority" \in DOMAIN orig.Header
ExtensionsJSON == JObj([n \in {"priority"} |-> JStr(orig.Header["Ce-Priority"])])

DisplayedOnce == handling = "responded" /\ calls["display"] > 0

\* C8 as stated: one call of display writes exactly one line, which holds
\* the event's type verbatim and the JSON encoding of its extension map,
\* {} when the event has no extensions.
C8_DisplayLineEmptyObject ==
    DisplayedOnce
        => /\ Cardinality(DisplayLines) = calls["display"]
           /\ \A i \in DisplayLines :
                /\ reqLog[i].type = DecodedType
                /\ reqLog[i].extensions =
                       IF HasExtensions THEN ExtensionsJSON ELSE JObj(NoHeader)

\* C8 as amended: one call of display writes exactly one log entry, which
\* holds the payload, the event's type verbatim and the JSON encoding of its
\* extension map; for an event without extensions that encoding is null.
C8_DisplayLineNull ==
    DisplayedOnce
        => /\ Cardinality(DisplayLines) = calls["display"]
           /\ calls["display"] = 1
           /\ \A i \in DisplayLines :
                /\ reqLog[i].type = DecodedType
                /\ reqLog[i].data = received.bytes
                /\ reqLog[i].extensions =
                       IF HasExtensions THEN ExtensionsJSON ELSE JNull

C8_Witness ==
    /\ DisplayedOnce
    /\ ~HasExtensions
    /\ DecodedType = "sample.created"
    /\ \E i \in DisplayLines : reqLog[i].extensions = JNull

LastLine == log[Len(log)]

ReceiverWasStarted ==
    \/ pc = "serving"
    \/ exit = "returned"
    \/ (exit = "fatal" /\ LastLine.text = "Error during receiver's runtime")

\* C9: a tracing-configuration parse failure is never fatal: run logs a
\* warning, goes on to construct the tracer with the substituted no-op
\* configuration and, when the tracer is constructed, starts the receiver;
\* only a client or tracer construction failure keeps the receiver from
\* starting.
C9_ConfigFailureIsNotFatal ==
    /\ conf = "noop"
          => /\ Line("warning", "Failed to read tracing config") \in Range(log)
             /\ pc \in {"setupTracing", "startReceiver", "serving", "exited"}
             /\ (tracer # "none" /\ pc = "exited") => ReceiverWasStarted
    /\ (exit = "fatal" /\ ~ReceiverWasStarted)
          => LastLine.text \in {"Failed to create client", "Failed to initialize tracing"}

C9_Witness ==
    /\ conf = "noop"
    /\ pc = "serving"
    /\ handling = "responded"
    /\ w = 200

\* The snapshots written for the request in flight.
Snapshots == {l.json.o : l \in {x \in Range(reqLog) : x.kind = "snapshot"}}

ExpectedKeys(r, body) ==
    {"remoteAddr", "requestURI"}
    \cup (IF r.Method # "" THEN {"method"} ELSE {})
    \cup (IF r.URL # NilURL THEN {"URL"} ELSE {})
    \cup (IF r.Proto # "" THEN {"proto"} ELSE {})
    \cup (IF r.ProtoMajor # 0 THEN {"protoMajor"} ELSE {})
    \cup (IF r.ProtoMinor # 0 THEN {"protoMinor"} ELSE {})
    \cup (IF DOMAIN r.Header # {} THEN {"headers"} ELSE {})
    \cup (IF body # <<>> THEN {"body"} ELSE {})
    \cup (IF r.ContentLength # 0 THEN {"contentLength"} ELSE {})
    \cup (IF r.TransferEncoding # <<>> THEN {"transferEncoding"} ELSE {})
    \cup (IF r.Host # "" THEN {"host"} ELSE {})
    \cup (IF DOMAIN r.Trailer # {} THEN {"trailer"} ELSE {})

=============================================================================
